---- MODULE Spec2Model ----
(***************************************************************************)
(* cslibs_utility::logger::CSVWriter<Types...> (csv_writer.hpp): producer  *)
(* threads calling write(), the worker thread running loop(), and the      *)
(* thread running the destructor, one step per statement that touches      *)
(* shared state.  Text is a sequence of one-character strings.             *)
(***************************************************************************)
EXTENDS Integers, Sequences, FiniteSets, TLC

\* ------------------------------------------------------------------ bounds
\* total number of write() calls in one run
MaxWrites == 2

\* sizeof...(Types) of the instantiation that is modelled
size == 2

\* the producer threads
Producers == {"p1", "p2"}

Worker == "worker"
NoThread == "none"

\* ------------------------------------------------------------ the inputs
\* The instantiation is CSVWriter<int, std::string, int, ...>.
FieldType(i) == IF i % 2 = 1 THEN "int" ELSE "string"

IntField(n) == [type |-> "int", v |-> n]
StrField(s) == [type |-> "string", v |-> s]

\* the values the callers draw the fields of a row from: an int and a string
RowValues == {<<5, <<"a">>>>, <<-12, <<"b", "c">>>>}

\* the argument tuples a caller passes to write()
Rows ==
  { [i \in 1..size |-> IF FieldType(i) = "int" THEN IntField(c[1]) ELSE StrField(c[2])] :
      c \in RowValues }

\* ------------------------------------------------- rendering (pure code)
DigitChar(d) == <<"0", "1", "2", "3", "4", "5", "6", "7", "8", "9">>[d + 1]

RECURSIVE Digits(_)
Digits(n) == IF n < 10 THEN <<DigitChar(n)>> ELSE Digits(n \div 10) \o <<DigitChar(n % 10)>>

\* std::to_string(int): decimal digits, a leading '-' for a negative value
to_string(n) == IF n < 0 THEN <<"-">> \o Digits(-n) ELSE Digits(n)

\* toString<T>: std::to_string, and the std::string specialisation (verbatim)
toString(t) == IF t.type = "string" THEN t.v ELSE to_string(t.v)

\* mutant of buildString: a comma after every field, the last one too
RECURSIVE buildString_trailing(_)
buildString_trailing(ts) ==
  IF Len(ts) = 0
    THEN <<>>
    ELSE toString(Head(ts)) \o <<",">> \o buildString_trailing(Tail(ts))

\* buildString(t, ts...) / buildString(t)
RECURSIVE buildString(_)
buildString(ts) ==
  IF Len(ts) = 1
    THEN toString(ts[1])
    ELSE toString(Head(ts)) \o <<",">> \o buildString(Tail(ts))

\* the header names a caller passes to the constructor
HeaderNames == [i \in 1..size |-> <<"h">> \o Digits(i)]

\* loop() lines 87-91: the header, name by name
RECURSIVE HeaderPrefix(_, _)
HeaderPrefix(h, i) == IF i = 0 THEN <<>> ELSE HeaderPrefix(h, i - 1) \o h[i] \o <<",">>

\* mutant of HeaderText: the loop of line 87 runs to i < size
HeaderText_loop_to_size(h) == HeaderPrefix(h, size) \o h[size] \o <<"\n">>

HeaderText(h) == HeaderPrefix(h, size - 1) \o h[size] \o <<"\n">>

VARIABLES
  pc,             \* producer -> position inside write()
  string_built,   \* producer -> write()'s local string_built
  args,           \* producer -> the arguments of the running write() call
  call,           \* producer -> how many write() calls the thread has made
  nCalls,         \* write() calls started so far
  wpc,            \* position of the worker thread in loop()
  dumpFinal,      \* which call of dumpQ runs: FALSE line 108, TRUE line 110
  f,              \* dumpQ's local f
  dpc,            \* position of the thread running ~CSVWriter
  q_,             \* std::queue<std::string> q_
  q_mutex_,       \* owner of q_mutex_
  notify_mutex_,  \* owner of notify_mutex_
  notify_log_,    \* TRUE: the blocked waiter of notify_log_ has been notified
  stop_,          \* std::atomic_bool stop_
  out_,           \* the characters written to out_
  is_open,        \* out_.is_open()
  opens,          \* number of times out_.open() succeeded
  has_header_,    \* has_header_
  header_,        \* header_
  path_,          \* path_: "ok" can be opened for writing, "bad" cannot
  pushed          \* history: the q_.push calls, in the order they happened, each with
                  \* its thread, call number, arguments, and whether the call
                  \* returned before stop_ was set

\* buffered::buffered_vector<T> (buffered_vector.hpp)
VARIABLES
  size_,          \* size_
  data_,          \* std::vector<T> data_; its length is capacity()
  data_ptr_,      \* data_ptr_: "null", or "data" when it is data_.data()
  bv_call,        \* the last call made on the vector and how it ended
  bv_calls        \* calls made on the vector so far

bvVars == << size_, data_, data_ptr_, bv_call, bv_calls >>

\* synchronized::queue<T> (synchronized_queue.hpp)
VARIABLES
  queue_q_,       \* std::queue q_ of synchronized::queue
  mutex_,         \* owner of mutex_
  tpc,            \* thread -> position inside a call on the queue
  tlocal,         \* thread -> the argument or the local t of its call
  sq_pushed,      \* history: the values pushed, in the order of q_.push
  sq_popped,      \* history: the values pop() returned, in the order of the returns
  sq_calls,       \* calls made on the queue so far
  sq_ub           \* TRUE once pop() ran on an empty queue (undefined behaviour)

sqVars == << queue_q_, mutex_, tpc, tlocal, sq_pushed, sq_popped, sq_calls, sq_ub >>

\* the objects a CSVWriter run does not touch
otherVars == << bvVars, sqVars >>

\* the threads that use the synchronized::queue
Threads == {"t1", "t2"}

\* a default-constructed vector that nobody uses
BvUnused ==
  /\ size_ = 0
  /\ data_ = <<>>
  /\ data_ptr_ = "null"
  /\ bv_call = [op |-> "none"]
  /\ bv_calls = 0

\* a default-constructed queue that nobody uses
SqUnused ==
  /\ queue_q_ = <<>>
  /\ mutex_ = NoThread
  /\ tpc = [t \in Threads |-> "idle"]
  /\ tlocal = [t \in Threads |-> [op |-> "none"]]
  /\ sq_pushed = <<>>
  /\ sq_popped = <<>>
  /\ sq_calls = 0
  /\ sq_ub = FALSE

vars ==
  << pc, string_built, args, call, nCalls, wpc, dumpFinal, f, dpc, q_, q_mutex_,
     notify_mutex_, notify_log_, stop_, out_, is_open, opens, has_header_, header_,
     path_, pushed, otherVars >>

\* ------------------------------------------------------------ construction
\* CSVWriter(header, path) and CSVWriter(path): the worker thread is started,
\* nothing has run yet.
Init ==
  /\ pc = [p \in Producers |-> "idle"]
  /\ string_built = [p \in Producers |-> <<>>]
  /\ args = [p \in Producers |-> <<>>]
  /\ call = [p \in Producers |-> 0]
  /\ nCalls = 0
  /\ wpc = "open"
  /\ dumpFinal = FALSE
  /\ f = <<>>
  /\ dpc = "alive"
  /\ q_ = <<>>
  /\ q_mutex_ = NoThread
  /\ notify_mutex_ = NoThread
  /\ notify_log_ = FALSE
  /\ stop_ = FALSE
  /\ out_ = <<>>
  /\ is_open = FALSE
  /\ opens = 0
  /\ has_header_ \in BOOLEAN
  /\ header_ = IF has_header_ THEN HeaderNames ELSE [i \in 1..size |-> <<>>]
  /\ path_ \in {"ok", "bad"}
  /\ pushed = <<>>
  /\ BvUnused
  /\ SqUnused

\* std::condition_variable::notify_one: wakes the thread blocked in wait, if any
notify_one == notify_log_' = (notify_log_ \/ wpc = "waiting")

\* -------------------------------------------------------------- write()
producerVars == << pc, string_built, args, call >>
workerVars == << wpc, dumpFinal, f >>
fileVars == << out_, is_open, opens >>
configVars == << has_header_, header_, path_ >>

\* line 35: the call starts and renders its arguments
write_build(p, ts) ==
  /\ pc[p] = "idle"
  /\ dpc # "done"
  /\ nCalls < MaxWrites
  /\ nCalls' = nCalls + 1
  /\ call' = [call EXCEPT ![p] = call[p] + 1]
  /\ args' = [args EXCEPT ![p] = ts]
  /\ string_built' = [string_built EXCEPT ![p] = buildString(ts)]
  /\ pc' = [pc EXCEPT ![p] = "lock"]
  /\ UNCHANGED << workerVars, fileVars, configVars, otherVars, dpc, q_, q_mutex_, notify_mutex_,
                  notify_log_, stop_, pushed >>

\* line 36: std::unique_lock q_lock(q_mutex_)
write_lock(p) ==
  /\ pc[p] = "lock"
  /\ q_mutex_ = NoThread
  /\ q_mutex_' = p
  /\ pc' = [pc EXCEPT ![p] = "push"]
  /\ UNCHANGED << string_built, args, call, nCalls, workerVars, fileVars, configVars, otherVars, dpc,
                  q_, notify_mutex_, notify_log_, stop_, pushed >>

\* mutant of write_push: the producer also writes its line to the file
write_push_writes_file(p) ==
  /\ pc[p] = "push"
  /\ q_' = Append(q_, string_built[p])
  /\ out_' = out_ \o string_built[p] \o <<"\n">>
  /\ pushed' = Append(pushed, [p |-> p, call |-> call[p], row |-> args[p], ret |-> "running"])
  /\ pc' = [pc EXCEPT ![p] = "notify"]
  /\ UNCHANGED << otherVars, string_built, args, call, nCalls, wpc, dumpFinal, f, is_open,
                  opens, has_header_, header_, path_, dpc, q_mutex_, notify_mutex_,
                  notify_log_, stop_ >>

\* line 37: q_.push(string_built)
write_push(p) ==
  /\ pc[p] = "push"
  /\ q_' = Append(q_, string_built[p])
  /\ pushed' = Append(pushed, [p |-> p, call |-> call[p], row |-> args[p], ret |-> "running"])
  /\ pc' = [pc EXCEPT ![p] = "notify"]
  /\ UNCHANGED << string_built, args, call, nCalls, workerVars, fileVars, configVars, otherVars, dpc,
                  q_mutex_, notify_mutex_, notify_log_, stop_ >>

\* line 38: notify_log_.notify_one()
write_notify(p) ==
  /\ pc[p] = "notify"
  /\ notify_one
  /\ pc' = [pc EXCEPT ![p] = "return"]
  /\ UNCHANGED << string_built, args, call, nCalls, workerVars, fileVars, configVars, otherVars, dpc,
                  q_, q_mutex_, notify_mutex_, stop_, pushed >>

\* line 39: q_lock is released and the call returns.  The history records
\* whether the call returned before the stop flag was set.
write_return(p) ==
  /\ pc[p] = "return"
  /\ q_mutex_' = NoThread
  /\ pc' = [pc EXCEPT ![p] = "idle"]
  /\ string_built' = [string_built EXCEPT ![p] = <<>>]
  /\ args' = [args EXCEPT ![p] = <<>>]
  /\ pushed' = [i \in 1..Len(pushed) |->
                  IF pushed[i].p = p /\ pushed[i].call = call[p]
                    THEN [pushed[i] EXCEPT !.ret = IF stop_ THEN "late" ELSE "early"]
                    ELSE pushed[i]]
  /\ UNCHANGED << call, nCalls, workerVars, fileVars, configVars, otherVars, dpc, q_, notify_mutex_,
                  notify_log_, stop_ >>

\* --------------------------------------------------------------- loop()
\* mutant of loop_open: no return after the diagnostic of line 82
loop_open_no_return ==
  /\ wpc = "open"
  /\ is_open' = (path_ = "ok")
  /\ opens' = IF path_ = "ok" THEN opens + 1 ELSE opens
  /\ out_' = <<>>
  /\ wpc' = "header"
  /\ UNCHANGED << otherVars, pc, string_built, args, call, nCalls, dumpFinal, f, has_header_, header_,
                  path_, dpc, q_, q_mutex_, notify_mutex_, notify_log_, stop_, pushed >>

\* lines 80-84: out_.open(path_) truncates the file; on failure the worker
\* prints the diagnostic and returns
loop_open ==
  /\ wpc = "open"
  /\ IF path_ = "ok"
       THEN /\ is_open' = TRUE
            /\ opens' = opens + 1
            /\ out_' = <<>>
            /\ wpc' = "header"
       ELSE /\ wpc' = "exited"
            /\ UNCHANGED << out_, is_open, opens >>
  /\ UNCHANGED << producerVars, nCalls, dumpFinal, f, configVars, otherVars, dpc, q_, q_mutex_,
                  notify_mutex_, notify_log_, stop_, pushed >>

\* mutant of loop_header: has_header_ is not tested
loop_header_always ==
  /\ wpc = "header"
  /\ out_' = out_ \o HeaderText(header_)
  /\ wpc' = "lock"
  /\ UNCHANGED << otherVars, pc, string_built, args, call, nCalls, dumpFinal, f, is_open, opens,
                  has_header_, header_, path_, dpc, q_, q_mutex_, notify_mutex_,
                  notify_log_, stop_, pushed >>

\* lines 86-92: the header line, if one was configured
loop_header ==
  /\ wpc = "header"
  /\ out_' = IF has_header_ THEN out_ \o HeaderText(header_) ELSE out_
  /\ wpc' = "lock"
  /\ UNCHANGED << producerVars, nCalls, dumpFinal, f, is_open, opens, configVars, otherVars, dpc, q_,
                  q_mutex_, notify_mutex_, notify_log_, stop_, pushed >>

\* line 105: std::unique_lock notify_lock(notify_mutex_)
loop_lock ==
  /\ wpc = "lock"
  /\ notify_mutex_ = NoThread
  /\ notify_mutex_' = Worker
  /\ wpc' = "test_stop"
  /\ UNCHANGED << producerVars, nCalls, dumpFinal, f, fileVars, configVars, otherVars, dpc, q_,
                  q_mutex_, notify_log_, stop_, pushed >>

\* mutant of loop_test_stop: no dumpQ after the loop (line 110 missing)
loop_test_stop_no_final_dump ==
  /\ wpc = "test_stop"
  /\ wpc' = IF stop_ THEN "close" ELSE "wait"
  /\ dumpFinal' = FALSE
  /\ UNCHANGED << otherVars, pc, string_built, args, call, nCalls, f, out_, is_open, opens,
                  has_header_, header_, path_, dpc, q_, q_mutex_, notify_mutex_,
                  notify_log_, stop_, pushed >>

\* line 106: while (!stop_); when the loop is left, dumpQ of line 110 starts
loop_test_stop ==
  /\ wpc = "test_stop"
  /\ IF stop_
       THEN wpc' = "dump_empty" /\ dumpFinal' = TRUE
       ELSE wpc' = "wait" /\ dumpFinal' = FALSE
  /\ UNCHANGED << producerVars, nCalls, f, fileVars, configVars, otherVars, dpc, q_, q_mutex_,
                  notify_mutex_, notify_log_, stop_, pushed >>

\* line 107: notify_log_.wait(notify_lock) releases the mutex and blocks
loop_wait ==
  /\ wpc = "wait"
  /\ wpc' = "waiting"
  /\ notify_mutex_' = NoThread
  /\ notify_log_' = FALSE
  /\ UNCHANGED << producerVars, nCalls, dumpFinal, f, fileVars, configVars, otherVars, dpc, q_,
                  q_mutex_, stop_, pushed >>

\* line 107: wait returns with the mutex held again; dumpQ of line 108 starts
wait_return ==
  /\ notify_mutex_ = NoThread
  /\ notify_mutex_' = Worker
  /\ notify_log_' = FALSE
  /\ wpc' = "dump_empty"
  /\ UNCHANGED << producerVars, nCalls, dumpFinal, f, fileVars, configVars, otherVars, dpc, q_,
                  q_mutex_, stop_, pushed >>

\* the blocked worker was notified
loop_wake ==
  /\ wpc = "waiting"
  /\ notify_log_
  /\ wait_return

\* std::condition_variable::wait may return without a notification
loop_spurious_wake ==
  /\ wpc = "waiting"
  /\ ~notify_log_
  /\ wait_return

\* The values q_.empty() of line 95 can return.  It is read without q_mutex_:
\* while a producer is inside q_.push the read races with the push and
\* returns the state before or after it.
q_empty_reads ==
  IF \E p \in Producers : pc[p] = "push" THEN {q_ = <<>>, FALSE} ELSE {q_ = <<>>}

\* line 95: while (!q_.empty())
dumpQ_empty ==
  /\ wpc = "dump_empty"
  /\ \E e \in q_empty_reads :
       wpc' = IF ~e THEN "dump_lock" ELSE IF dumpFinal THEN "close" ELSE "test_stop"
  /\ UNCHANGED << producerVars, nCalls, dumpFinal, f, fileVars, configVars, otherVars, dpc, q_,
                  q_mutex_, notify_mutex_, notify_log_, stop_, pushed >>

\* line 96: std::unique_lock q_lock(q_mutex_)
dumpQ_lock ==
  /\ wpc = "dump_lock"
  /\ q_mutex_ = NoThread
  /\ q_mutex_' = Worker
  /\ wpc' = "dump_pop"
  /\ UNCHANGED << producerVars, nCalls, dumpFinal, f, fileVars, configVars, otherVars, dpc, q_,
                  notify_mutex_, notify_log_, stop_, pushed >>

\* mutant of dumpQ_pop: the newest element is taken instead of the oldest
dumpQ_pop_newest ==
  /\ wpc = "dump_pop"
  /\ q_ # <<>>
  /\ f' = q_[Len(q_)]
  /\ q_' = SubSeq(q_, 1, Len(q_) - 1)
  /\ q_mutex_' = NoThread
  /\ wpc' = "dump_out"
  /\ UNCHANGED << otherVars, pc, string_built, args, call, nCalls, dumpFinal, out_, is_open, opens,
                  has_header_, header_, path_, dpc, notify_mutex_, notify_log_, stop_,
                  pushed >>

\* mutant of dumpQ_pop: q_lock is not unlocked before the line is written
dumpQ_pop_keeps_lock ==
  /\ wpc = "dump_pop"
  /\ q_ # <<>>
  /\ f' = Head(q_)
  /\ q_' = Tail(q_)
  /\ wpc' = "dump_out"
  /\ UNCHANGED << otherVars, pc, string_built, args, call, nCalls, dumpFinal, out_, is_open, opens,
                  has_header_, header_, path_, dpc, q_mutex_, notify_mutex_, notify_log_,
                  stop_, pushed >>

\* mutant of dumpQ_pop: q_.pop() of line 98 is missing
dumpQ_pop_no_pop ==
  /\ wpc = "dump_pop"
  /\ q_ # <<>>
  /\ f' = Head(q_)
  /\ q_mutex_' = NoThread
  /\ wpc' = "dump_out"
  /\ UNCHANGED << otherVars, pc, string_built, args, call, nCalls, dumpFinal, out_, is_open,
                  opens, has_header_, header_, path_, dpc, q_, notify_mutex_, notify_log_,
                  stop_, pushed >>

\* lines 97-99: f = q_.front(); q_.pop(); q_lock.unlock()
dumpQ_pop ==
  /\ wpc = "dump_pop"
  /\ q_ # <<>>
  /\ f' = Head(q_)
  /\ q_' = Tail(q_)
  /\ q_mutex_' = NoThread
  /\ wpc' = "dump_out"
  /\ UNCHANGED << producerVars, nCalls, dumpFinal, fileVars, configVars, otherVars, dpc, notify_mutex_,
                  notify_log_, stop_, pushed >>

\* mutant of dumpQ_out: the "\n" of line 101 is missing
dumpQ_out_no_newline ==
  /\ wpc = "dump_out"
  /\ out_' = out_ \o f
  /\ f' = <<>>
  /\ wpc' = "dump_empty"
  /\ UNCHANGED << otherVars, pc, string_built, args, call, nCalls, dumpFinal, is_open, opens,
                  has_header_, header_, path_, dpc, q_, q_mutex_, notify_mutex_,
                  notify_log_, stop_, pushed >>

\* line 101: out_ << f << "\n"
dumpQ_out ==
  /\ wpc = "dump_out"
  /\ out_' = out_ \o f \o <<"\n">>
  /\ f' = <<>>
  /\ wpc' = "dump_empty"
  /\ UNCHANGED << producerVars, nCalls, dumpFinal, is_open, opens, configVars, otherVars, dpc, q_,
                  q_mutex_, notify_mutex_, notify_log_, stop_, pushed >>

\* lines 112-114: flush, close, and the thread ends (notify_lock is released)
loop_close ==
  /\ wpc = "close"
  /\ is_open' = FALSE
  /\ notify_mutex_' = NoThread
  /\ wpc' = "exited"
  /\ UNCHANGED << producerVars, nCalls, dumpFinal, f, out_, opens, configVars, otherVars, dpc, q_,
                  q_mutex_, notify_log_, stop_, pushed >>

\* ---------------------------------------------------------- ~CSVWriter()
\* lines 52-53: the thread is joinable; stop_ = true
dtor_stop ==
  /\ dpc = "alive"
  /\ stop_' = TRUE
  /\ dpc' = "notify"
  /\ UNCHANGED << producerVars, nCalls, workerVars, fileVars, configVars, otherVars, q_, q_mutex_,
                  notify_mutex_, notify_log_, pushed >>

\* line 54: notify_log_.notify_one()
dtor_notify ==
  /\ dpc = "notify"
  /\ notify_one
  /\ dpc' = "join"
  /\ UNCHANGED << producerVars, nCalls, workerVars, fileVars, configVars, otherVars, q_, q_mutex_,
                  notify_mutex_, stop_, pushed >>

\* mutant of dtor_join: the stop flag is cleared after the join
dtor_join_clears_stop ==
  /\ dpc = "join"
  /\ wpc = "exited"
  /\ dpc' = "done"
  /\ stop_' = FALSE
  /\ UNCHANGED << otherVars, pc, string_built, args, call, nCalls, wpc, dumpFinal, f, out_,
                  is_open, opens, has_header_, header_, path_, q_, q_mutex_, notify_mutex_,
                  notify_log_, pushed >>

\* line 55: worker_thread_.join() returns once the worker thread has ended
dtor_join ==
  /\ dpc = "join"
  /\ wpc = "exited"
  /\ dpc' = "done"
  /\ UNCHANGED << producerVars, nCalls, workerVars, fileVars, configVars, otherVars, q_, q_mutex_,
                  notify_mutex_, notify_log_, stop_, pushed >>

\* ------------------------------------------------------- specifications
ProducerStep(p) ==
  \/ write_lock(p)
  \/ write_push(p)
  \/ write_notify(p)
  \/ write_return(p)

WorkerStep ==
  \/ loop_open
  \/ loop_header
  \/ loop_lock
  \/ loop_test_stop
  \/ loop_wait
  \/ loop_wake
  \/ dumpQ_empty
  \/ dumpQ_lock
  \/ dumpQ_pop
  \/ dumpQ_out
  \/ loop_close

\* the steps of the destructor after it has set stop_
DtorStep ==
  \/ dtor_notify
  \/ dtor_join

Next ==
  \/ \E p \in Producers : \E ts \in Rows : write_build(p, ts)
  \/ \E p \in Producers : ProducerStep(p)
  \/ WorkerStep
  \/ loop_spurious_wake
  \/ dtor_stop
  \/ DtorStep

Spec == Init /\ [][Next]_vars

\* Every thread that can take a step eventually takes one.  Nothing obliges a
\* caller to call write() or to destroy the writer, and nothing obliges wait
\* to return without a notification.
FairSpec ==
  /\ Spec
  /\ \A p \in Producers : WF_vars(ProducerStep(p))
  /\ WF_vars(WorkerStep)
  /\ WF_vars(DtorStep)

\* write() takes part only in the steps of its own critical section and the
\* worker only in the step that ends its critical section: no step that
\* writes to the file, waits or shuts down is obliged to happen.
FairSpecNoIO ==
  /\ Spec
  /\ \A p \in Producers : WF_vars(ProducerStep(p))
  /\ WF_vars(dumpQ_pop)

\* ================================================= buffered_vector<T>
\* largest size and capacity a caller asks for
MaxCap == 2

\* number of calls made on one vector
MaxBvCalls == 3

\* T(): the value-initialised element
BvDefault == 0

\* the values a caller stores
BvValues == {1, 2}

\* the variables of the CSVWriter
writerVars ==
  << pc, string_built, args, call, nCalls, wpc, dumpFinal, f, dpc, q_, q_mutex_,
     notify_mutex_, notify_log_, stop_, out_, is_open, opens, has_header_, header_,
     path_, pushed >>

\* a CSVWriter that takes no step
WriterUnused ==
  /\ pc = [p \in Producers |-> "idle"]
  /\ string_built = [p \in Producers |-> <<>>]
  /\ args = [p \in Producers |-> <<>>]
  /\ call = [p \in Producers |-> 0]
  /\ nCalls = 0
  /\ wpc = "open"
  /\ dumpFinal = FALSE
  /\ f = <<>>
  /\ dpc = "alive"
  /\ q_ = <<>>
  /\ q_mutex_ = NoThread
  /\ notify_mutex_ = NoThread
  /\ notify_log_ = FALSE
  /\ stop_ = FALSE
  /\ out_ = <<>>
  /\ is_open = FALSE
  /\ opens = 0
  /\ has_header_ = FALSE
  /\ header_ = [i \in 1..size |-> <<>>]
  /\ path_ = "ok"
  /\ pushed = <<>>

\* std::vector<T>(n, value)
Filled(n, value) == [i \in 1..n |-> value]

\* std::vector::resize(n, value): cut to n elements, or grown with value
vector_resize(v, n, value) ==
  IF n <= Len(v) THEN SubSeq(v, 1, n) ELSE v \o Filled(n - Len(v), value)

\* lines 17-63: the four constructors; assert(size <= capacity) of lines 46
\* and 62 has passed
BvInit ==
  /\ WriterUnused
  /\ SqUnused
  /\ bv_calls = 0
  /\ \/ /\ size_ = 0
        /\ data_ = <<>>
        /\ data_ptr_ = "null"
        /\ bv_call = [op |-> "ctor"]
     \/ \E n \in 0..MaxCap :
          /\ size_ = n
          /\ data_ = Filled(size_, BvDefault)
          /\ data_ptr_ = "data"
          /\ bv_call = [op |-> "ctor_size"]
     \/ \E n \in 0..MaxCap, c \in 0..MaxCap, value \in {BvDefault} \cup BvValues :
          /\ n <= c
          /\ size_ = n
          /\ data_ = Filled(c, value)
          /\ data_ptr_ = "data"
          /\ bv_call = [op |-> "ctor_size_capacity"]

\* The values a read of data_ptr_[i] can produce inside the storage of data_.
data_ptr_reads(i) ==
  IF data_ptr_ = "data" /\ i < Len(data_)
    THEN {data_[i + 1]}
    ELSE {BvDefault} \cup BvValues

\* lines 92-111: at(i).  A read outside the storage of data_ is undefined: it
\* yields some value, or no value at all ("undefined").
at(i) ==
  /\ bv_calls < MaxBvCalls
  /\ bv_calls' = bv_calls + 1
  /\ IF i >= size_
       THEN bv_call' = [op |-> "at", i |-> i, out |-> "index_out_of_bounds"]
       ELSE \/ \E x \in data_ptr_reads(i) :
                 bv_call' = [op |-> "at", i |-> i, out |-> "value", value |-> x]
            \/ /\ ~(data_ptr_ = "data" /\ i < Len(data_))
               /\ bv_call' = [op |-> "at", i |-> i, out |-> "undefined"]
  /\ UNCHANGED << size_, data_, data_ptr_, writerVars, sqVars >>

\* mutant of store_back: the capacity test is missing
store_back_unchecked(op, value) ==
  /\ bv_calls < MaxBvCalls
  /\ bv_calls' = bv_calls + 1
  /\ data_' = IF data_ptr_ = "data" /\ size_ < Len(data_)
                THEN [data_ EXCEPT ![size_ + 1] = value]
                ELSE data_
  /\ size_' = size_ + 1
  /\ bv_call' = [op |-> op, value |-> value, out |-> "stored"]
  /\ UNCHANGED << data_ptr_, writerVars, sqVars >>

\* lines 261-265 and 270-274: the body push_back and emplace_back share.  A
\* store to data_ptr_[size_] outside the storage of data_ is undefined and
\* leaves data_ as it is.
store_back(op, value) ==
  /\ bv_calls < MaxBvCalls
  /\ bv_calls' = bv_calls + 1
  /\ IF size_ = Len(data_)
       THEN /\ bv_call' = [op |-> op, value |-> value, out |-> "capacity_limit"]
            /\ UNCHANGED << size_, data_ >>
       ELSE /\ data_' = IF data_ptr_ = "data" /\ size_ < Len(data_)
                          THEN [data_ EXCEPT ![size_ + 1] = value]
                          ELSE data_
            /\ size_' = size_ + 1
            /\ bv_call' = [op |-> op, value |-> value, out |-> "stored"]
  /\ UNCHANGED << data_ptr_, writerVars, sqVars >>

\* lines 268-275: push_back(value)
push_back(value) == store_back("push_back", value)

\* lines 259-266: emplace_back(value)
emplace_back(value) == store_back("emplace_back", value)

\* lines 280-283: clear()
clear ==
  /\ bv_calls < MaxBvCalls
  /\ bv_calls' = bv_calls + 1
  /\ size_' = 0
  /\ bv_call' = [op |-> "clear"]
  /\ UNCHANGED << data_, data_ptr_, writerVars, sqVars >>

\* lines 231-238: resize(size, default_value)
resize(n, value) ==
  /\ bv_calls < MaxBvCalls
  /\ bv_calls' = bv_calls + 1
  /\ size_' = 0
  /\ data_' = vector_resize(data_, n, value)
  /\ data_ptr_' = "data"
  /\ bv_call' = [op |-> "resize", size |-> n]
  /\ UNCHANGED << writerVars, sqVars >>

\* lines 246-253: resize(size, capacity, default_value); nothing compares
\* size with capacity
resize_capacity(n, c, value) ==
  /\ bv_calls < MaxBvCalls
  /\ bv_calls' = bv_calls + 1
  /\ size_' = n
  /\ data_' = vector_resize(data_, c, value)
  /\ data_ptr_' = "data"
  /\ bv_call' = [op |-> "resize_capacity", size |-> n, capacity |-> c]
  /\ UNCHANGED << writerVars, sqVars >>

BvNext ==
  \/ \E i \in 0..MaxCap : at(i)
  \/ \E value \in BvValues : push_back(value)
  \/ \E value \in BvValues : emplace_back(value)
  \/ clear
  \/ \E n \in 0..MaxCap, value \in {BvDefault} \cup BvValues : resize(n, value)
  \/ \E n \in 0..MaxCap, c \in 0..MaxCap, value \in {BvDefault} \cup BvValues :
       resize_capacity(n, c, value)

BvSpec == BvInit /\ [][BvNext]_vars

\* ================================================= synchronized::queue<T>
\* number of calls made on one queue
MaxSqCalls == 4

\* the member functions the threads call
QueueOps == {"push", "emplace", "pop", "empty", "size"}

SqInit == WriterUnused /\ BvUnused /\ SqUnused

\* A thread calls a member function.  The argument of push / emplace is the
\* number of the call, so that every element pushed is a different one.
queue_call(t, op) ==
  /\ tpc[t] = "idle"
  /\ sq_calls < MaxSqCalls
  /\ sq_calls' = sq_calls + 1
  /\ tlocal' = [tlocal EXCEPT ![t] =
                  IF op \in {"push", "emplace"}
                    THEN [op |-> op, t |-> sq_calls']
                    ELSE [op |-> op]]
  /\ tpc' = [tpc EXCEPT ![t] = "lock"]
  /\ UNCHANGED << queue_q_, mutex_, sq_pushed, sq_popped, sq_ub, writerVars, bvVars >>

\* mutant of queue_lock: the lock is taken although another thread holds it
queue_lock_not_exclusive(t) ==
  /\ tpc[t] = "lock"
  /\ mutex_' = t
  /\ tpc' = [tpc EXCEPT ![t] = "locked"]
  /\ UNCHANGED << queue_q_, tlocal, sq_pushed, sq_popped, sq_calls, sq_ub,
                  writerVars, bvVars >>

\* lines 20, 31, 37, 51, 57: lock_t l(mutex_)
queue_lock(t) ==
  /\ tpc[t] = "lock"
  /\ mutex_ = NoThread
  /\ mutex_' = t
  /\ tpc' = [tpc EXCEPT ![t] = "locked"]
  /\ UNCHANGED << queue_q_, tlocal, sq_pushed, sq_popped, sq_calls, sq_ub,
                  writerVars, bvVars >>

\* line 58: q_.push(t)
queue_push(t) ==
  /\ tpc[t] = "locked"
  /\ tlocal[t].op = "push"
  /\ queue_q_' = Append(queue_q_, tlocal[t].t)
  /\ sq_pushed' = Append(sq_pushed, tlocal[t].t)
  /\ tpc' = [tpc EXCEPT ![t] = "return"]
  /\ UNCHANGED << mutex_, tlocal, sq_popped, sq_calls, sq_ub, writerVars, bvVars >>

\* line 52: q_.emplace(t)
queue_emplace(t) ==
  /\ tpc[t] = "locked"
  /\ tlocal[t].op = "emplace"
  /\ queue_q_' = Append(queue_q_, tlocal[t].t)
  /\ sq_pushed' = Append(sq_pushed, tlocal[t].t)
  /\ tpc' = [tpc EXCEPT ![t] = "return"]
  /\ UNCHANGED << mutex_, tlocal, sq_popped, sq_calls, sq_ub, writerVars, bvVars >>

\* line 38: _Tp t = q_.front().  front() of an empty queue is undefined: t is
\* then any value.
queue_pop_front(t) ==
  /\ tpc[t] = "locked"
  /\ tlocal[t].op = "pop"
  /\ IF queue_q_ # <<>>
       THEN /\ tlocal' = [tlocal EXCEPT ![t] = [op |-> "pop", t |-> Head(queue_q_)]]
            /\ UNCHANGED sq_ub
       ELSE /\ \E x \in 0..MaxSqCalls :
                 tlocal' = [tlocal EXCEPT ![t] = [op |-> "pop", t |-> x]]
            /\ sq_ub' = TRUE
  /\ tpc' = [tpc EXCEPT ![t] = "front_read"]
  /\ UNCHANGED << queue_q_, mutex_, sq_pushed, sq_popped, sq_calls, writerVars, bvVars >>

\* line 39: q_.pop().  pop() of an empty queue is undefined; the queue is
\* left empty.
queue_pop_pop(t) ==
  /\ tpc[t] = "front_read"
  /\ IF queue_q_ # <<>>
       THEN /\ queue_q_' = Tail(queue_q_)
            /\ UNCHANGED sq_ub
       ELSE /\ UNCHANGED queue_q_
            /\ sq_ub' = TRUE
  /\ sq_popped' = Append(sq_popped, tlocal[t].t)
  /\ tpc' = [tpc EXCEPT ![t] = "return"]
  /\ UNCHANGED << mutex_, tlocal, sq_pushed, sq_calls, writerVars, bvVars >>

\* line 21: q_.empty()
queue_empty(t) ==
  /\ tpc[t] = "locked"
  /\ tlocal[t].op = "empty"
  /\ tlocal' = [tlocal EXCEPT ![t] = [op |-> "empty", result |-> (queue_q_ = <<>>)]]
  /\ tpc' = [tpc EXCEPT ![t] = "return"]
  /\ UNCHANGED << queue_q_, mutex_, sq_pushed, sq_popped, sq_calls, sq_ub,
                  writerVars, bvVars >>

\* line 32: q_.size()
queue_size(t) ==
  /\ tpc[t] = "locked"
  /\ tlocal[t].op = "size"
  /\ tlocal' = [tlocal EXCEPT ![t] = [op |-> "size", result |-> Len(queue_q_)]]
  /\ tpc' = [tpc EXCEPT ![t] = "return"]
  /\ UNCHANGED << queue_q_, mutex_, sq_pushed, sq_popped, sq_calls, sq_ub,
                  writerVars, bvVars >>

\* lines 22, 33, 41, 53, 59: the function returns, its locals end, and l
\* releases mutex_ if it is the thread's
queue_return(t) ==
  /\ tpc[t] = "return"
  /\ mutex_' = IF mutex_ = t THEN NoThread ELSE mutex_
  /\ tpc' = [tpc EXCEPT ![t] = "idle"]
  /\ tlocal' = [tlocal EXCEPT ![t] = [op |-> "none"]]
  /\ UNCHANGED << queue_q_, sq_pushed, sq_popped, sq_calls, sq_ub,
                  writerVars, bvVars >>

SqNext ==
  \E t \in Threads :
    \/ \E op \in QueueOps : queue_call(t, op)
    \/ queue_lock(t)
    \/ queue_push(t)
    \/ queue_emplace(t)
    \/ queue_pop_front(t)
    \/ queue_pop_pop(t)
    \/ queue_empty(t)
    \/ queue_size(t)
    \/ queue_return(t)

SqSpec == SqInit /\ [][SqNext]_vars

\* ------------------------------------------------- reading the file back
FirstNewline(t) ==
  IF \E i \in 1..Len(t) : t[i] = "\n"
    THEN CHOOSE i \in 1..Len(t) : t[i] = "\n" /\ \A j \in 1..(i - 1) : t[j] # "\n"
    ELSE 0

\* the newline-terminated lines of a text, without their newlines
RECURSIVE LinesOf(_)
LinesOf(t) ==
  IF FirstNewline(t) = 0
    THEN <<>>
    ELSE <<SubSeq(t, 1, FirstNewline(t) - 1)>> \o LinesOf(SubSeq(t, FirstNewline(t) + 1, Len(t)))

\* every character of the text belongs to a newline-terminated line
AllTerminated(t) == t = <<>> \/ t[Len(t)] = "\n"

\* texts joined by single commas, built from the left
RECURSIVE CommaJoined(_, _)
CommaJoined(ss, k) ==
  IF k = 1 THEN ss[1] ELSE CommaJoined(ss, k - 1) \o <<",">> \o ss[k]

\* the line a row is expected to produce
RowLine(row) == CommaJoined([i \in 1..Len(row) |-> toString(row[i])], Len(row))

HeaderLine == CommaJoined(header_, size)

\* the lines of the file after the header line, if one was configured
DataLines ==
  IF has_header_ /\ LinesOf(out_) # <<>> THEN Tail(LinesOf(out_)) ELSE LinesOf(out_)

Opened == path_ = "ok" /\ wpc # "open"

OpenFailed == path_ = "bad"

\* ---------------------------------------------------------------- claims

\* C1: when the file opened and the destructor has returned, every line whose
\* write() call returned before the stop flag was set is in the file (the i-th
\* push is the i-th data line).
FlushOnShutdown ==
  (dpc = "done" /\ path_ = "ok") =>
    \A i \in 1..Len(pushed) :
      pushed[i].ret = "early" =>
        /\ i <= Len(DataLines)
        /\ DataLines[i] = RowLine(pushed[i].row)

\* C1 witness: the destructor has returned and the file holds a line whose
\* write() returned before the stop flag was set, next to one whose write()
\* returned after it.
FlushOnShutdownWitness ==
  /\ dpc = "done"
  /\ path_ = "ok"
  /\ \E i, j \in 1..Len(pushed) :
       /\ pushed[i].ret = "early"
       /\ pushed[j].ret = "late"
       /\ i <= Len(DataLines)

\* C2: once the destructor has set the stop flag and notified, its join
\* returns (the worker leaves the loop, drains, closes and exits).
ShutdownCompletes == (dpc = "join") ~> (dpc = "done")

\* C3: with a header and an opened file, after all write() calls returned and
\* the writer was then destroyed, the file is exactly the header line followed
\* by the rows in submission order, each line newline-terminated: k+1 lines.
RECURSIVE ExpectedRows(_)
ExpectedRows(k) ==
  IF k = 0 THEN <<>> ELSE ExpectedRows(k - 1) \o RowLine(pushed[k].row) \o <<"\n">>

ExactFileContent ==
  ( /\ dpc = "done"
    /\ path_ = "ok"
    /\ has_header_
    /\ Len(pushed) = nCalls
    /\ \A i \in 1..Len(pushed) : pushed[i].ret = "early" ) =>
      /\ out_ = HeaderLine \o <<"\n">> \o ExpectedRows(Len(pushed))
      /\ Len(LinesOf(out_)) = nCalls + 1
      /\ AllTerminated(out_)

\* C3 witness: one thread made all the calls, then the writer was destroyed.
ExactFileContentWitness ==
  /\ dpc = "done"
  /\ path_ = "ok"
  /\ has_header_
  /\ nCalls = MaxWrites
  /\ Len(pushed) = nCalls
  /\ \A i \in 1..Len(pushed) : pushed[i].ret = "early" /\ pushed[i].p = pushed[1].p
  /\ Len(LinesOf(out_)) = MaxWrites + 1

\* C4: in every state the i-th data line of the file is the line of the i-th
\* push, and of two written rows of one thread the earlier call comes first.
OrderPreserved ==
  /\ Len(DataLines) <= Len(pushed)
  /\ \A i \in 1..Len(DataLines) : DataLines[i] = RowLine(pushed[i].row)
  /\ \A i, j \in 1..Len(DataLines) :
       (i < j /\ pushed[i].p = pushed[j].p) => pushed[i].call < pushed[j].call

\* C4 witness: two different lines of two threads are in the file.
OrderPreservedWitness ==
  /\ Len(DataLines) >= 2
  /\ DataLines[1] # DataLines[2]
  /\ pushed[1].p # pushed[2].p

\* C5: with a header and an opened file, nothing is in the file before the
\* header, and afterwards the header is the first line and no other line.
HeaderOnceAndFirst ==
  (has_header_ /\ path_ = "ok") =>
    /\ wpc \in {"open", "header"} => out_ = <<>>
    /\ wpc \notin {"open", "header"} =>
         /\ LinesOf(out_) # <<>>
         /\ LinesOf(out_)[1] = HeaderLine
         /\ \A i \in 2..Len(LinesOf(out_)) : LinesOf(out_)[i] # HeaderLine
         /\ Len(LinesOf(out_)) <= 1 + Len(pushed)
         /\ AllTerminated(out_)

\* C5 witness: the header has just been written and is alone in the file,
\* while every row is already queued: all were pushed before the worker first
\* looked at the queue.
HeaderOnceAndFirstWitness ==
  /\ has_header_
  /\ wpc = "lock"
  /\ Len(q_) = MaxWrites
  /\ LinesOf(out_) = <<HeaderLine>>

\* C6: without a header every line of the file is the line of a row passed to
\* write(), and nothing else is in the file.
NoHeaderMode ==
  ~has_header_ =>
    /\ \A i \in 1..Len(LinesOf(out_)) :
         \E j \in 1..Len(pushed) : LinesOf(out_)[i] = RowLine(pushed[j].row)
    /\ AllTerminated(out_)

\* C6 witness: rows were written and the worker has closed the file.
NoHeaderModeWitness ==
  /\ ~has_header_
  /\ wpc = "exited"
  /\ Len(LinesOf(out_)) = MaxWrites

\* C7: when the open fails the worker ends at once with nothing written and
\* the file never open, every write() call still returns, and so does the
\* destructor.
OpenFailureSwallowed ==
  /\ [](OpenFailed => (out_ = <<>> /\ ~is_open /\ opens = 0 /\ wpc \in {"open", "exited"}))
  /\ \A p \in Producers : (OpenFailed /\ pc[p] # "idle") ~> (pc[p] = "idle")
  /\ (OpenFailed /\ dpc # "alive") ~> (dpc = "done")

\* C7 witness: the open failed, the worker has ended, every write() call has
\* returned with its line left in the queue, and the destructor has returned.
OpenFailureSwallowedWitness ==
  /\ OpenFailed
  /\ wpc = "exited"
  /\ dpc = "done"
  /\ Len(q_) = MaxWrites
  /\ \A i \in 1..Len(pushed) : pushed[i].ret # "running"
  /\ \A p \in Producers : pc[p] = "idle"

\* C8: the worker does not hold the queue lock while it writes a line or
\* waits, a thread inside write() holds no other lock, and every write() call
\* returns, whether or not the worker's output or wait ever ends.
WriteNeverBlocksOnIO ==
  /\ [](wpc \in {"dump_out", "waiting", "exited"} => q_mutex_ # Worker)
  /\ [](\A p \in Producers : notify_mutex_ # p)
  /\ \A p \in Producers : (pc[p] # "idle") ~> (pc[p] = "idle")

\* C8 witness: a write() call has taken the queue lock and pushed while the
\* worker was about to write a line to the file.
WriteNeverBlocksOnIOWitness ==
  /\ wpc = "dump_out"
  /\ \E p \in Producers : pc[p] = "notify"

\* C9: whenever the worker is blocked in the condition wait, the queue is
\* empty and the stop flag is not set.
SuspendsOnlyWhenIdle == (wpc = "waiting") => (q_ = <<>> /\ ~stop_)

\* C10: in no state is the worker at an access to the queue (the emptiness
\* test, or front and pop) while a producer is inside its push.
QueueAccessUnderLock ==
  \A p \in Producers : ~(pc[p] = "push" /\ wpc \in {"dump_empty", "dump_pop"})

\* C11: the file is opened at most once, only by the worker's first step;
\* once closed it stays closed; no step of a producer opens, writes or closes
\* the file.
SingleFileHandle ==
  [][ /\ opens' <= 1
      /\ opens' # opens => (wpc = "open" /\ wpc' = "header")
      /\ (~is_open /\ is_open') => opens = 0
      /\ (opens = 1 /\ ~is_open) => ~is_open'
      /\ pc' # pc => (out_' = out_ /\ is_open' = is_open /\ opens' = opens) ]_vars

\* C11 witness: the file was opened once and closed, and a write() call made
\* afterwards has returned with the file still closed.
SingleFileHandleWitness ==
  /\ opens = 1
  /\ ~is_open
  /\ wpc = "exited"
  /\ q_ # <<>>
  /\ \A p \in Producers : pc[p] = "idle"

\* C12: the stop flag is never cleared, an exited worker stays exited, and
\* after the worker exited the file never changes while the queue only grows.
LifecycleMonotone ==
  [][ /\ stop_ => stop_'
      /\ dpc = "done" => dpc' = "done"
      /\ wpc = "exited" =>
           /\ wpc' = "exited"
           /\ out_' = out_
           /\ is_open' = is_open
           /\ Len(q_') >= Len(q_)
           /\ SubSeq(q_', 1, Len(q_)) = q_ ]_vars

\* C12 witness: after the worker exited and the destructor returned, the line
\* of a later write() call sits in the queue, not in the file.
LifecycleMonotoneWitness ==
  /\ path_ = "ok"
  /\ stop_
  /\ wpc = "exited"
  /\ dpc = "done"
  /\ q_ # <<>>
  /\ Len(DataLines) < Len(pushed)
  /\ \A p \in Producers : pc[p] = "idle"

\* C15: while no shutdown is requested, the k-th line pushed is eventually
\* the k-th data line of the file, without any further call.
SignalledRowDrained ==
  \A k \in 1..MaxWrites :
    (path_ = "ok" /\ Len(pushed) >= k) ~> (Len(DataLines) >= k \/ stop_)

\* the lines taken from the queue and not yet in the file, then the queue
Pending == (IF wpc = "dump_out" THEN <<f>> ELSE <<>>) \o q_

\* the data lines of the file (none if the open failed), then the pending ones
KeptLines == (IF path_ = "ok" THEN DataLines ELSE <<>>) \o Pending

\* C16: once the stop flag is set, every write() call in progress returns,
\* and every pushed line is either one whole line of the file or still
\* unwritten in the queue, at its place in the push order; the file holds no
\* partial line.
WriteRacingShutdown ==
  /\ [](stop_ =>
          /\ \A i \in 1..Len(pushed) :
               /\ i <= Len(KeptLines)
               /\ KeptLines[i] = RowLine(pushed[i].row)
          /\ AllTerminated(out_))
  /\ \A p \in Producers : (stop_ /\ pc[p] # "idle") ~> (pc[p] = "idle")

\* C16 witness: a write() call that returned after the stop flag was set has
\* its line in the file, written by the final drain.
WriteRacingShutdownWitness ==
  /\ path_ = "ok"
  /\ dpc = "done"
  /\ \E i \in 1..Len(pushed) : pushed[i].ret = "late" /\ i <= Len(DataLines)

\* C16, the other outcome: such a line is left in the queue.
WriteRacingShutdownLeftQueued ==
  /\ path_ = "ok"
  /\ dpc = "done"
  /\ wpc = "exited"
  /\ \E i \in 1..Len(pushed) : pushed[i].ret = "late" /\ i > Len(DataLines)

\* C17: when the file opened, the data lines of the file, then the line taken
\* from the queue and not yet written, then the queue, are exactly the lines
\* pushed so far, in push order.
RowConservation ==
  path_ = "ok" =>
    DataLines \o Pending = [i \in 1..Len(pushed) |-> buildString(pushed[i].row)]

\* C17 witness: one line is in the file and the next is taken from the queue
\* and not yet written.
RowConservationWitness ==
  /\ path_ = "ok"
  /\ wpc = "dump_out"
  /\ Len(DataLines) >= 1
  /\ f # <<>>

\* ------------------------------------------------- buffered_vector claims
\* a step that is one call of the named member functions
BvCallOf(ops) == bv_calls' = bv_calls + 1 /\ bv_call'.op \in ops

PushBackWithinCapacity ==
  [][ BvCallOf({"push_back", "emplace_back"}) =>
        /\ size_ < Len(data_) =>
             /\ bv_call'.out = "stored"
             /\ size_' = size_ + 1
             /\ data_' = [data_ EXCEPT ![size_ + 1] = bv_call'.value]
        /\ size_ = Len(data_) =>
             /\ bv_call'.out = "capacity_limit"
             /\ size_' = size_
             /\ data_' = data_
        /\ size_ <= Len(data_) => size_' <= Len(data_') ]_vars

\* the vector was filled by push_back / emplace_back and the last call was
\* refused at the capacity limit
PushBackWithinCapacityWitness ==
  /\ bv_calls = MaxBvCalls
  /\ bv_call.op \in {"push_back", "emplace_back"}
  /\ bv_call.out = "capacity_limit"
  /\ size_ = Len(data_)
  /\ size_ >= 2
  /\ bv_call.value # data_[size_]
  /\ data_[size_] \in BvValues
  /\ data_[size_ - 1] \in BvValues
  /\ data_[size_ - 1] # data_[size_]

\* C18: size() <= capacity() after any sequence of constructors, push_back,
\* emplace_back, clear, resize(size) and resize(size, capacity) calls, so
\* end() never lies past limit().
SizeWithinCapacity == size_ <= Len(data_)

\* ------------------------------------------------- synchronized::queue claims
\* the elements of a sequence are all different
NoDuplicates(sq) == \A i, j \in 1..Len(sq) : sq[i] = sq[j] => i = j

\* C19: every operation touches the underlying queue only while its thread
\* holds mutex_; and while no pop has run on an empty queue, the elements
\* popped are, without repetition, the first elements pushed in the order
\* in which the pushes acquired mutex_, the rest being still in the queue.
LinearizableFIFO ==
  /\ \A t \in Threads : tpc[t] \in {"locked", "front_read", "return"} => mutex_ = t
  /\ ~sq_ub =>
       /\ NoDuplicates(sq_popped)
       /\ Len(sq_popped) <= Len(sq_pushed)
       /\ sq_popped = SubSeq(sq_pushed, 1, Len(sq_popped))
       /\ sq_popped \o queue_q_ = sq_pushed
       /\ \A t \in Threads :
            tpc[t] = "front_read" => tlocal[t].t = sq_pushed[Len(sq_popped) + 1]

\* two elements were pushed in the reverse order of their calls; one pop has
\* read the front inside its critical section while the pop of the other
\* thread waits for mutex_
LinearizableFIFOWitness ==
  /\ ~sq_ub
  /\ Len(sq_pushed) = 2
  /\ sq_pushed[1] > sq_pushed[2]
  /\ \E t, u \in Threads :
       /\ tpc[t] = "front_read"
       /\ tlocal[t].t = sq_pushed[1]
       /\ tpc[u] = "lock"
       /\ tlocal[u].op = "pop"
====
